---- MODULE Spec2Model ----
(***************************************************************************)
(* Food manufacture planning model (src/food_manufacture).                 *)
(*                                                                         *)
(* FoodManufactureModel.build() assembles a linear model (variables with   *)
(* domains and bounds, constraint families, one objective) from an oil     *)
(* catalog, a price table and a parameter dictionary; solve() hands the    *)
(* model to an external solver and flattens the values into records.       *)
(*                                                                         *)
(* The solver's numbers are not computed here: a record of result_data     *)
(* names the variable whose loaded value it holds.  What the built         *)
(* constraints admit is examined on candidate assignments instead: whole   *)
(* tons, every usage a multiple of Unit tons and at most MaxQty of them,   *)
(* every stock a multiple of Unit within its bounds, purchases and         *)
(* production as the equalities leave them.  Hardness values and the two   *)
(* hardness bounds are kept in tenths (8.8 is 88, 3.0 is 30), which scales *)
(* both sides of the hardness constraints alike.                           *)
(***************************************************************************)
EXTENDS Integers, Sequences, FiniteSets, TLC

VARIABLES oils, prices, params, model, point, result_data, ret, err, pc, probe

vars == <<oils, prices, params, model, point, result_data, ret, err, pc, probe>>

\* Largest number of units an oil is refined by in a month in a candidate
\* assignment.
MaxQty == 2
\* Tons per unit of the candidates.
Unit == 100
\* Number of months of the price table handed to the model.
NumPeriods == 2

---------------------------------------------------------------------------
(* Generic helpers *)

RECURSIVE SumOver(_, _)
SumOver(S, f) ==
    IF S = {} THEN 0
    ELSE LET x == CHOOSE y \in S : TRUE IN f[x] + SumOver(S \ {x}, f)

Restrict(f, S) == [k \in S |-> f[k]]

---------------------------------------------------------------------------
(* Reference data: data.py *)

\* load_oils_data(): the rows of the catalog in DataFrame order.
load_oils_data ==
    << [id |-> "VEG1", type |-> "Veg",    hardness |-> 88],
       [id |-> "VEG2", type |-> "Veg",    hardness |-> 61],
       [id |-> "OIL1", type |-> "NonVeg", hardness |-> 20],
       [id |-> "OIL2", type |-> "NonVeg", hardness |-> 42],
       [id |-> "OIL3", type |-> "NonVeg", hardness |-> 50] >>

\* load_market_prices(): one column per oil, indexed by month 1..6.
load_market_prices ==
    [ VEG1 |-> <<110, 130, 110, 120, 100, 90>>,
      VEG2 |-> <<120, 130, 140, 110, 120, 100>>,
      OIL1 |-> <<130, 110, 130, 120, 150, 140>>,
      OIL2 |-> <<110, 90, 100, 120, 110, 80>>,
      OIL3 |-> <<115, 115, 95, 125, 105, 135>> ]

\* get_parameters(): the keys of the parameter dictionary.
ContinuousKeys ==
    {"storage_cost_per_ton", "product_sales_price", "max_veg_refine_per_month",
     "max_nonveg_refine_per_month", "storage_capacity_per_oil", "initial_stock",
     "target_final_stock", "min_hardness", "max_hardness"}

DiscreteKeys == {"min_usage_if_used", "max_ingredients_per_month"}

\* A key a caller may add to configure (dependent, prerequisite) pairs;
\* get_parameters() has no such entry and build() reads none.
PairsKey == "logical_implications"

\* get_parameters(): tons, prices per ton, hardness bounds in tenths.
get_parameters ==
    [ storage_cost_per_ton        |-> 5,
      product_sales_price         |-> 150,
      max_veg_refine_per_month    |-> 200,
      max_nonveg_refine_per_month |-> 250,
      storage_capacity_per_oil    |-> 1000,
      initial_stock               |-> 500,
      target_final_stock          |-> 500,
      min_hardness                |-> 30,
      max_hardness                |-> 60,
      min_usage_if_used           |-> 20,
      max_ingredients_per_month   |-> 3 ]

---------------------------------------------------------------------------
(* DataFrame accessors *)

\* self.oils.index
OilIndex(cat) == {cat[i].id : i \in DOMAIN cat}

\* self.oils.loc[o]
OilRow(cat, o) == cat[CHOOSE i \in DOMAIN cat : cat[i].id = o]

\* self.oils[self.oils['type'] == oil_type].index
OilsOfType(cat, oil_type) == {cat[i].id : i \in {j \in DOMAIN cat : cat[j].type = oil_type}}

---------------------------------------------------------------------------
(* Linear expressions and constraints, as Pyomo stores them *)

\* model.Buy[o,t], model.Use[o,t], model.Stock[o,t], model.IsUsed[o,t]
Var(name, o, t) == <<name, o, t>>
\* model.Produce[t]
ProduceVar(t) == <<"Produce", "", t>>

\* A linear expression: coefficient per variable plus a constant.
Lin(terms, const) == [terms |-> terms, const |-> const]

\* One constraint of a family: name[idx] : lhs rel rhs.
Con(name, o, t, lhs, rel, rhs) ==
    [name |-> name, idx |-> <<o, t>>, lhs |-> lhs, rel |-> rel, rhs |-> rhs]

\* model.T.first(), model.T.last()
First(T) == CHOOSE t \in T : \A u \in T : t <= u
Last(T)  == CHOOSE t \in T : \A u \in T : u <= t

\* prices.loc[t, o]
PriceAt(self, t, o) == self.prices.col[o][t]

---------------------------------------------------------------------------
(* FoodManufactureModel.build: variables *)

\* m.Buy, m.Use, m.Stock, m.Produce and, on request, m.IsUsed.
Variables(self, T, O, use_integer_logic) ==
    LET cont == [v \in ({"Buy", "Use", "Stock"} \X O \X T) \cup {ProduceVar(t) : t \in T} |->
                    IF v[1] = "Stock"
                    THEN [domain |-> "NonNegativeReals",
                          ub |-> {self.params["storage_capacity_per_oil"]}]
                    ELSE [domain |-> "NonNegativeReals", ub |-> {}]]
        bin  == [v \in {"IsUsed"} \X O \X T |-> [domain |-> "Binary", ub |-> {}]]
    IN IF use_integer_logic THEN cont @@ bin ELSE cont

(* FoodManufactureModel.build: constraint rules *)

\* balance_rule with the previous stock always taken from initial_stock.
balance_rule_stale(self, T, o, t) ==
    Con("Balance", o, t,
        Lin(Var("Stock", o, t) :> 1, 0),
        "==",
        Lin((Var("Buy", o, t) :> 1) @@ (Var("Use", o, t) :> -1), self.params["initial_stock"]))

\* 1. Inventory balance.
balance_rule(self, T, o, t) ==
    LET prev_stock == IF t = First(T)
                      THEN Lin(<<>>, self.params["initial_stock"])
                      ELSE Lin(Var("Stock", o, t - 1) :> 1, 0)
    IN Con("Balance", o, t,
           Lin(Var("Stock", o, t) :> 1, 0),
           "==",
           Lin(prev_stock.terms @@ (Var("Buy", o, t) :> 1) @@ (Var("Use", o, t) :> -1),
               prev_stock.const))

\* final_stock_rule pinning the first period instead of the last.
final_stock_rule_first(self, T, o) ==
    Con("FinalStock", o, 0,
        Lin(Var("Stock", o, First(T)) :> 1, 0),
        "==",
        Lin(<<>>, self.params["target_final_stock"]))

\* 2. Target final stock.
final_stock_rule(self, T, o) ==
    Con("FinalStock", o, 0,
        Lin(Var("Stock", o, Last(T)) :> 1, 0),
        "==",
        Lin(<<>>, self.params["target_final_stock"]))

\* capacity_rule with the type filter inverted.
capacity_rule_inverted(self, name, t, oil_type, limit) ==
    LET relevant_oils == OilIndex(self.oils) \ OilsOfType(self.oils, oil_type)
    IN Con(name, "", t,
           Lin([v \in {Var("Use", o, t) : o \in relevant_oils} |-> 1], 0),
           "<=",
           Lin(<<>>, limit))

\* 3. Refining capacity of one category.
capacity_rule(self, name, t, oil_type, limit) ==
    LET relevant_oils == OilsOfType(self.oils, oil_type)
    IN Con(name, "", t,
           Lin([v \in {Var("Use", o, t) : o \in relevant_oils} |-> 1], 0),
           "<=",
           Lin(<<>>, limit))

\* 4. Production definition.
production_def(self, O, t) ==
    Con("ProductionDef", "", t,
        Lin(ProduceVar(t) :> 1, 0),
        "==",
        Lin([v \in {Var("Use", o, t) : o \in O} |-> 1], 0))

\* 5. Hardness constraints, linearized.
total_hardness(self, O, t) ==
    Lin([v \in {Var("Use", o, t) : o \in O} |-> OilRow(self.oils, v[2]).hardness], 0)

hardness_min_rule(self, O, t) ==
    Con("HardnessMin", "", t,
        total_hardness(self, O, t),
        ">=",
        Lin(ProduceVar(t) :> self.params["min_hardness"], 0))

\* hardness_max_rule reading the lower bound.
hardness_max_rule_min(self, O, t) ==
    Con("HardnessMax", "", t,
        total_hardness(self, O, t),
        "<=",
        Lin(ProduceVar(t) :> self.params["min_hardness"], 0))

hardness_max_rule(self, O, t) ==
    Con("HardnessMax", "", t,
        total_hardness(self, O, t),
        "<=",
        Lin(ProduceVar(t) :> self.params["max_hardness"], 0))

\* 6. Linking constraint (Big-M).
big_m == 250

\* link_rule without the indicator.
link_rule_free(self, o, t) ==
    Con("LinkVars", o, t,
        Lin(Var("Use", o, t) :> 1, 0),
        "<=",
        Lin(<<>>, big_m))

link_rule(self, o, t) ==
    Con("LinkVars", o, t,
        Lin(Var("Use", o, t) :> 1, 0),
        "<=",
        Lin(Var("IsUsed", o, t) :> big_m, 0))

\* 7. Minimum usage.
min_usage_rule(self, o, t) ==
    Con("MinThreshold", o, t,
        Lin(Var("Use", o, t) :> 1, 0),
        ">=",
        Lin(Var("IsUsed", o, t) :> self.params["min_usage_if_used"], 0))

\* 8. Max ingredients.
max_ingredients_rule(self, O, t) ==
    Con("MaxIngredients", "", t,
        Lin([v \in {Var("IsUsed", o, t) : o \in O} |-> 1], 0),
        "<=",
        Lin(<<>>, self.params["max_ingredients_per_month"]))

\* 9. Logical dependency of VEG1 and VEG2 on OIL3.
logic_veg1_rule(self, t) ==
    Con("LogicVeg1", "", t,
        Lin(Var("IsUsed", "VEG1", t) :> 1, 0),
        "<=",
        Lin(Var("IsUsed", "OIL3", t) :> 1, 0))

logic_veg2_rule(self, t) ==
    Con("LogicVeg2", "", t,
        Lin(Var("IsUsed", "VEG2", t) :> 1, 0),
        "<=",
        Lin(Var("IsUsed", "OIL3", t) :> 1, 0))

\* Objective: revenue - purchase_cost - storage_cost, maximized.
objective_rule(self, T, O) ==
    LET revenue       == [v \in {ProduceVar(t) : t \in T} |-> self.params["product_sales_price"]]
        purchase_cost == [v \in {"Buy"} \X O \X T |-> 0 - PriceAt(self, v[3], v[2])]
        storage_cost  == [v \in {"Stock"} \X O \X T |-> 0 - self.params["storage_cost_per_ton"]]
    IN [expr |-> Lin(revenue @@ purchase_cost @@ storage_cost, 0), sense |-> "maximize"]

\* The constraint families every model has.
ContinuousConstraints(self, T, O) ==
    {balance_rule(self, T, o, t) : o \in O, t \in T}
    \cup {final_stock_rule(self, T, o) : o \in O}
    \cup {capacity_rule(self, "VegCapacity", t, "Veg",
                        self.params["max_veg_refine_per_month"]) : t \in T}
    \cup {capacity_rule(self, "NonVegCapacity", t, "NonVeg",
                        self.params["max_nonveg_refine_per_month"]) : t \in T}
    \cup {production_def(self, O, t) : t \in T}
    \cup {hardness_min_rule(self, O, t) : t \in T}
    \cup {hardness_max_rule(self, O, t) : t \in T}

\* The families added when use_integer_logic is set.
DiscreteConstraints(self, T, O) ==
    {link_rule(self, o, t) : o \in O, t \in T}
    \cup {min_usage_rule(self, o, t) : o \in O, t \in T}
    \cup {max_ingredients_rule(self, O, t) : t \in T}
    \cup {logic_veg1_rule(self, t) : t \in T}
    \cup {logic_veg2_rule(self, t) : t \in T}

\* BuildModel leaving the category capacities to the linking constraints when
\* integer logic is requested.
BuildModel_nocap(self, use_integer_logic) ==
    LET T == self.prices.index
        O == OilIndex(self.oils)
    IN [kind    |-> "ConcreteModel",
        integer |-> use_integer_logic,
        T       |-> T,
        O       |-> O,
        var     |-> Variables(self, T, O, use_integer_logic),
        con     |-> IF use_integer_logic
                    THEN {c \in ContinuousConstraints(self, T, O) :
                             c.name \notin {"VegCapacity", "NonVegCapacity"}}
                         \cup DiscreteConstraints(self, T, O)
                    ELSE ContinuousConstraints(self, T, O),
        obj     |-> objective_rule(self, T, O)]

\* The ConcreteModel build() assigns to self.model when no rule raises.
BuildModel(self, use_integer_logic) ==
    LET T == self.prices.index
        O == OilIndex(self.oils)
    IN [kind    |-> "ConcreteModel",
        integer |-> use_integer_logic,
        T       |-> T,
        O       |-> O,
        var     |-> Variables(self, T, O, use_integer_logic),
        con     |-> ContinuousConstraints(self, T, O)
                    \cup (IF use_integer_logic THEN DiscreteConstraints(self, T, O) ELSE {}),
        obj     |-> objective_rule(self, T, O)]

\* The oil ids build() subscripts IsUsed with by name.
NamedOils == {"VEG1", "VEG2", "OIL3"}

\* The exception build() ends with, "none" when it reaches self.model = m.
\* Nothing is validated beforehand: the statements run in order and the first
\* failing subscript raises its KeyError (a missing dictionary key, Stock
\* index, IsUsed index or price column); a capacity rule over a category
\* without oils returns the Python boolean of 0 <= limit, which Constraint
\* rejects with a ValueError.  A key is read only where a statement that
\* subscripts it runs: storage_capacity_per_oil when Stock is declared, the
\* keys of a rule once per index of its constraint, the keys of the objective
\* once per term.  The price table has at least one month.
BuildError(self, use_integer_logic) ==
    LET T      == self.prices.index
        O      == OilIndex(self.oils)
        lacks(k) == k \notin DOMAIN self.params
        perOT  == O # {} /\ T # {}
        perT   == T # {}
        checks ==
          << <<lacks("storage_capacity_per_oil"), "KeyError">>,
             <<perOT /\ lacks("initial_stock"), "KeyError">>,
             <<perOT /\ \E t \in T : t # First(T) /\ (t - 1) \notin T, "KeyError">>,
             <<O # {} /\ lacks("target_final_stock"), "KeyError">>,
             <<perT /\ lacks("max_veg_refine_per_month"), "KeyError">>,
             <<perT /\ OilsOfType(self.oils, "Veg") = {}, "ValueError">>,
             <<perT /\ lacks("max_nonveg_refine_per_month"), "KeyError">>,
             <<perT /\ OilsOfType(self.oils, "NonVeg") = {}, "ValueError">>,
             <<perT /\ lacks("min_hardness"), "KeyError">>,
             <<perT /\ lacks("max_hardness"), "KeyError">>,
             <<use_integer_logic /\ perOT /\ lacks("min_usage_if_used"), "KeyError">>,
             <<use_integer_logic /\ perT /\ lacks("max_ingredients_per_month"), "KeyError">>,
             <<use_integer_logic /\ perT /\ O = {}, "ValueError">>,
             <<use_integer_logic /\ perT /\ ~(NamedOils \subseteq O), "KeyError">>,
             <<perT /\ lacks("product_sales_price"), "KeyError">>,
             <<perOT /\ ~(O \subseteq DOMAIN self.prices.col), "KeyError">>,
             <<perOT /\ lacks("storage_cost_per_ton"), "KeyError">> >>
        failing == {i \in DOMAIN checks : checks[i][1]}
    IN IF failing = {} THEN "none"
       ELSE checks[CHOOSE i \in failing : \A j \in failing : i <= j][2]

---------------------------------------------------------------------------
(* Candidate assignments and the ones a built model admits *)

\* Value of a linear expression under an assignment x of its variables.
Eval(e, x) == e.const + SumOver(DOMAIN e.terms, [v \in DOMAIN e.terms |-> e.terms[v] * x[v]])

\* Whether x satisfies constraint c.
Sat(c, x) ==
    LET l == Eval(c.lhs, x)
        r == Eval(c.rhs, x)
    IN CASE c.rel = "==" -> l = r
         [] c.rel = "<=" -> l <= r
         [] c.rel = ">=" -> l >= r

Support(c) == DOMAIN c.lhs.terms \cup DOMAIN c.rhs.terms

\* Whether value n lies in the domain and within the bounds of variable v.
InDomain(m, v, n) ==
    LET d == m.var[v]
    IN /\ n >= 0
       /\ \A u \in d.ub : n <= u
       /\ d.domain = "Binary" => n \in {0, 1}

\* The values the candidates give a variable no equality determines: both
\* values of a binary, the multiples of Unit up to the upper bound of a
\* bounded variable, and up to MaxQty units of an unbounded one.
Grid(m, v) ==
    LET d == m.var[v]
    IN IF d.domain = "Binary" THEN {0, 1}
       ELSE IF d.ub # {} THEN {n \in {k * Unit : k \in 0..((CHOOSE u \in d.ub : TRUE) \div Unit)} :
                                  InDomain(m, v, n)}
       ELSE {k * Unit : k \in 0..MaxQty}

\* Coefficient of variable v in constraint c, all terms moved to the left.
Coef(c, v) ==
    (IF v \in DOMAIN c.lhs.terms THEN c.lhs.terms[v] ELSE 0)
    - (IF v \in DOMAIN c.rhs.terms THEN c.rhs.terms[v] ELSE 0)

RECURSIVE SetToSeq(_)
SetToSeq(S) ==
    IF S = {} THEN <<>>
    ELSE LET x == CHOOSE y \in S : TRUE IN <<x>> \o SetToSeq(S \ {x})

\* The variables of a model in the order the search assigns them: period by
\* period the usage of every oil and the production, then oil by oil the
\* stock and the purchase of every period.
VarOrder(m) ==
    LET present(vs) == SelectSeq(vs, LAMBDA v : v \in DOMAIN m.var)
        os == SetToSeq(m.O)
        RECURSIVE refined(_, _)
        refined(i, t) ==
            IF i > Len(os) THEN <<ProduceVar(t)>>
            ELSE present(<<Var("Use", os[i], t), Var("IsUsed", os[i], t)>>) \o refined(i + 1, t)
        RECURSIVE stored(_, _)
        stored(o, T) ==
            IF T = {} THEN <<>>
            ELSE present(<<Var("Stock", o, First(T)), Var("Buy", o, First(T))>>)
                 \o stored(o, T \ {First(T)})
        RECURSIVE ofPeriods(_)
        ofPeriods(T) == IF T = {} THEN <<>>
                        ELSE refined(1, First(T)) \o ofPeriods(T \ {First(T)})
        RECURSIVE ofOils(_)
        ofOils(i) == IF i > Len(os) THEN <<>> ELSE stored(os[i], m.T) \o ofOils(i + 1)
    IN ofPeriods(m.T) \o ofOils(1)

\* Position of every variable in the search order.
Position(ord) == [v \in {ord[i] : i \in DOMAIN ord} |-> CHOOSE i \in DOMAIN ord : ord[i] = v]

\* Extends every partial value list by the i-th variable and keeps those that
\* satisfy every constraint whose variables are all assigned by then.  A
\* variable that such an equality holds with coefficient 1 or -1 takes the one
\* value the equality leaves it; any other variable takes the values of its
\* grid.
RECURSIVE Extend(_, _, _, _, _)
Extend(m, ord, pos, partials, i) ==
    IF i > Len(ord) THEN partials
    ELSE LET v        == ord[i]
             assigned == {ord[j] : j \in 1..i}
             cs       == {c \in m.con : v \in Support(c) /\ Support(c) \subseteq assigned}
             eqs      == {c \in cs : c.rel = "==" /\ Coef(c, v) \in {1, -1}}
             at(c, q) == [w \in Support(c) |-> q[pos[w]]]
             solved(p) ==
                 LET c == CHOOSE k \in eqs : TRUE
                     q == Append(p, 0)
                     n == (Eval(c.rhs, at(c, q)) - Eval(c.lhs, at(c, q))) * Coef(c, v)
                 IN IF InDomain(m, v, n) THEN {n} ELSE {}
             grid     == Grid(m, v)
             tries(p) == IF eqs = {} THEN grid ELSE solved(p)
             next     == UNION {{q \in {Append(p, n) : n \in tries(p)} :
                                    \A c \in cs : Sat(c, at(c, q))} : p \in partials}
         IN Extend(m, ord, pos, next, i + 1)

\* The candidates m admits, as value lists in search order: the points
\* satisfying all constraints and bounds of m whose undetermined variables
\* lie on the grid.
FeasibleLists(m) ==
    LET closed == {c \in m.con : Support(c) = {}}
        ord    == VarOrder(m)
    IN IF \A c \in closed : Sat(c, <<>>)
       THEN Extend(m, ord, Position(ord), {<<>>}, 1)
       ELSE {}

\* The assignment a value list stands for.
Assignment(m, q) ==
    LET pos == Position(VarOrder(m)) IN [v \in DOMAIN m.var |-> q[pos[v]]]

\* The candidates m admits, as assignments.
FeasibleSet(m) == {Assignment(m, q) : q \in FeasibleLists(m)}

\* An equality that pins a variable to a constant outside its domain or
\* bounds: no assignment at all satisfies m.
BoundConflict(m) ==
    \E c \in m.con : \E v \in Support(c) :
        /\ Support(c) = {v}
        /\ c.rel = "=="
        /\ Coef(c, v) \in {1, -1}
        /\ ~InDomain(m, v, (c.rhs.const - c.lhs.const) * Coef(c, v))

\* Whether a full assignment satisfies model m (constraints, domains, bounds).
Satisfies(m, x) ==
    /\ \A c \in m.con : Sat(c, x)
    /\ \A v \in DOMAIN m.var :
          /\ x[v] >= 0
          /\ \A u \in m.var[v].ub : x[v] <= u
          /\ m.var[v].domain = "Binary" => x[v] \in {0, 1}

---------------------------------------------------------------------------
(* State *)

None == [kind |-> "None"]

Status == {"Optimal", "Infeasible", "Unbounded", "Error"}

Self == [oils |-> oils, prices |-> prices, params |-> params]

\* pyo.value of a variable the solver loaded a value into: the number is the
\* solver's, the record names the variable it belongs to.
value(v) == [loaded |-> v]

\* The rows solve() collects: for t in model.T, for o in model.O.
Records(cat, m) ==
    LET RECURSIVE rows(_)
        rows(T) ==
            IF T = {} THEN <<>>
            ELSE LET t == First(T)
                 IN [i \in DOMAIN cat |->
                        [Month |-> t, Oil |-> cat[i].id,
                         Buy   |-> value(Var("Buy", cat[i].id, t)),
                         Use   |-> value(Var("Use", cat[i].id, t)),
                         Stock |-> value(Var("Stock", cat[i].id, t))]]
                    \o rows(T \ {t})
    IN rows(m.T)

---------------------------------------------------------------------------
(* Inputs *)

CatalogOf(ids) == SelectSeq(load_oils_data, LAMBDA r : r.id \in ids)

\* The catalog of data.py and two of its sub-catalogs.
Catalogs ==
    {load_oils_data, CatalogOf({"VEG1", "VEG2", "OIL3"}), CatalogOf({"VEG2", "OIL1", "OIL3"})}

\* The first n months of the price table, with the given oil columns.
PriceTable(cols, n) ==
    [index |-> 1..n,
     col   |-> [o \in cols |-> [t \in 1..n |-> load_market_prices[o][t]]]]

\* Parameters of a plant without storage: every stock stays 0.
NoStorage ==
    [get_parameters EXCEPT !["storage_capacity_per_oil"] = 0,
                           !["initial_stock"] = 0,
                           !["target_final_stock"] = 0]

\* Complete parameter dictionaries: the ones of data.py, the same with small
\* stores that are empty at both ends, with a final stock target above the
\* storage capacity, and plants without storage with other caps and hardness
\* bounds.
ParamValues ==
    { get_parameters,
      [get_parameters EXCEPT !["storage_capacity_per_oil"] = 200,
                             !["initial_stock"] = 0,
                             !["target_final_stock"] = 0],
      [get_parameters EXCEPT !["target_final_stock"] = 1100],
      NoStorage,
      [NoStorage EXCEPT !["max_nonveg_refine_per_month"] = 100,
                        !["min_hardness"] = 62,
                        !["max_hardness"] = 70],
      [NoStorage EXCEPT !["max_nonveg_refine_per_month"] = 300]
         @@ (PairsKey :> {<<"OIL3", "VEG2">>}) }

\* Dictionaries that lack one key.
ParamsLacking ==
    {Restrict(get_parameters, DOMAIN get_parameters \ {k}) : k \in ContinuousKeys}
    \cup {Restrict(NoStorage, DOMAIN NoStorage \ {k}) : k \in DiscreteKeys}

\* What main.py hands to FoodManufactureModel, over the first month and over
\* NumPeriods months, and variations of it: fewer oils, other parameters,
\* a missing key, a missing price column.
Scenarios ==
    {[oils |-> load_oils_data, prices |-> PriceTable(OilIndex(load_oils_data), 1),
      params |-> p] : p \in {get_parameters, NoStorage}}
    \cup {[oils |-> c, prices |-> PriceTable(OilIndex(c), NumPeriods), params |-> NoStorage] :
           c \in Catalogs \ {load_oils_data}}
    \cup {[oils |-> CatalogOf(NamedOils), prices |-> PriceTable(NamedOils, NumPeriods),
           params |-> p] : p \in ParamValues \cup ParamsLacking}
    \cup {[oils |-> CatalogOf(NamedOils), prices |-> PriceTable(NamedOils \ {o}, NumPeriods),
           params |-> get_parameters] : o \in NamedOils}
    \cup {[oils |-> CatalogOf({"OIL3"}), prices |-> PriceTable({"OIL3"}, NumPeriods),
           params |-> get_parameters],
          [oils |-> CatalogOf({}), prices |-> PriceTable({}, NumPeriods),
           params |-> Restrict(get_parameters, DOMAIN get_parameters \ {"initial_stock"})]}

---------------------------------------------------------------------------
(* Operations *)

\* FoodManufactureModel.__init__
Init ==
    /\ \E s \in Scenarios : oils = s.oils /\ prices = s.prices /\ params = s.params
    /\ model = None
    /\ point = <<>>
    /\ result_data = <<>>
    /\ ret = "none"
    /\ err = "none"
    /\ pc = "build"
    /\ probe = None

\* solve() has been called: each wrapper is built, then solved once.
Solved == pc = "done"

\* A candidate assignment the built model admits is under examination.
Evaluated == pc = "evaluated"

\* FoodManufactureModel.build
Build(use_integer_logic) ==
    /\ pc = "build"
    /\ LET e == BuildError(Self, use_integer_logic)
       IN IF e = "none"
          THEN /\ model' = BuildModel(Self, use_integer_logic)
               /\ err' = "none"
          ELSE /\ err' = e
               /\ UNCHANGED model
    /\ UNCHANGED <<oils, prices, params, point, result_data, ret, pc, probe>>

\* The constraints and bounds build() emitted, applied to the candidate
\* assignments: any candidate they admit becomes the point under examination.
Evaluate ==
    /\ model # None
    /\ pc = "build"
    /\ \E q \in FeasibleLists(model) : point' = Assignment(model, q)
    /\ pc' = "evaluated"
    /\ UNCHANGED <<oils, prices, params, model, result_data, ret, err, probe>>

\* FoodManufactureModel.solve.  The status is the solver's: Optimal is out
\* when no assignment satisfies the model, Infeasible and Unbounded are out
\* when a candidate satisfies it.  With Optimal the solver has loaded a value
\* into every variable and solve() flattens them into result_data and returns
\* the result.  With another status no values are loaded, and the call ends
\* with the solver's RuntimeError for the missing solution or, when the
\* solver returns, with the ValueError of pyo.value on a variable without
\* value; result_data is not assigned and nothing is returned.
Solve ==
    /\ model # None
    /\ pc = "build"
    /\ \E status \in Status :
         IF status = "Optimal"
         THEN /\ ~BoundConflict(model)
              /\ result_data' = Records(oils, model)
              /\ ret' = status
              /\ err' = "none"
         ELSE /\ status \in {"Infeasible", "Unbounded"} => FeasibleLists(model) = {}
              /\ err' \in {"RuntimeError", "ValueError"}
              /\ UNCHANGED <<result_data, ret>>
    /\ pc' = "done"
    /\ UNCHANGED <<oils, prices, params, model, point, probe>>

Next == (\E flag \in BOOLEAN : Build(flag)) \/ Evaluate \/ Solve

Spec == Init /\ [][Next]_vars

---------------------------------------------------------------------------
(* The hardness rules applied to arbitrary usage of one period *)

\* The constraints ProductionDef[t], HardnessMin[t] and HardnessMax[t] of m.
HardnessFamily(m, t) ==
    {c \in m.con : c.name \in {"ProductionDef", "HardnessMin", "HardnessMax"}
                   /\ c.idx = <<"", t>>}

HardnessParams ==
    { get_parameters,
      [get_parameters EXCEPT !["min_hardness"] = 50, !["max_hardness"] = 55],
      [get_parameters EXCEPT !["min_hardness"] = 61, !["max_hardness"] = 88],
      [get_parameters EXCEPT !["min_hardness"] = 60, !["max_hardness"] = 30] }

InitH ==
    /\ \E c \in Catalogs, p \in HardnessParams :
          /\ c = load_oils_data => p = get_parameters
          /\ oils = c /\ prices = PriceTable(OilIndex(c), NumPeriods) /\ params = p
    /\ model = None
    /\ point = <<>>
    /\ result_data = <<>>
    /\ ret = "none"
    /\ err = "none"
    /\ pc = "build"
    /\ probe = None

\* Builds the model and evaluates the three constraints of one period on any
\* Use[.,t] of the grid and any Produce[t] up to their largest sum.
ProbeHardness ==
    /\ probe = None
    /\ \E flag \in BOOLEAN :
          /\ BuildError(Self, flag) = "none"
          /\ LET m == BuildModel(Self, flag)
             IN \E t \in m.T :
                  \E u \in {f \in [{Var("Use", o, t) : o \in m.O} -> {k * Unit : k \in 0..MaxQty}] :
                               \A v \in DOMAIN f : f[v] \in Grid(m, v)},
                     p \in {k * Unit : k \in 0..(MaxQty * Cardinality(m.O))} :
                     LET x == u @@ (ProduceVar(t) :> p) IN
                     /\ probe' = [kind |-> "Probe", t |-> t, x |-> x,
                                  admitted |-> \A c \in HardnessFamily(m, t) : Sat(c, x)]
    /\ UNCHANGED <<oils, prices, params, model, point, result_data, ret, err, pc>>

SpecH == InitH /\ [][ProbeHardness]_vars

---------------------------------------------------------------------------
(* Properties *)

Use(o, t)    == point[Var("Use", o, t)]
Buy(o, t)    == point[Var("Buy", o, t)]
Stock(o, t)  == point[Var("Stock", o, t)]
IsUsed(o, t) == point[Var("IsUsed", o, t)]

PrevStock(o, t) == IF t = First(model.T) THEN params["initial_stock"] ELSE Stock(o, t - 1)

\* C1: in every assignment that satisfies the built model, for every oil and
\* period, Stock[o,t] = PrevStock(o,t) + Buy[o,t] - Use[o,t], PrevStock being
\* initial_stock in the first period and Stock[o,t-1] afterwards.
BalanceInvariant ==
    Evaluated => \A o \in model.O, t \in model.T :
                 Stock(o, t) = PrevStock(o, t) + Buy(o, t) - Use(o, t)

\* A later period in which an oil is bought and used on top of a stock that
\* moved away from the initial one.
BalanceWitness ==
    /\ Evaluated
    /\ \E o \in model.O, t \in model.T :
          /\ t # First(model.T)
          /\ Stock(o, t - 1) # params["initial_stock"]
          /\ Buy(o, t) > 0
          /\ Use(o, t) > 0

\* C2: in every assignment that satisfies the built model, the stock of every
\* oil of the catalog in the last period equals target_final_stock.
FinalStockTarget ==
    Evaluated => \A o \in OilIndex(oils) :
                 Stock(o, Last(model.T)) = params["target_final_stock"]

\* Every oil ends on the target although one was off it the period before.
FinalStockWitness ==
    /\ Evaluated
    /\ Last(model.T) # First(model.T)
    /\ \E o \in model.O : Stock(o, Last(model.T) - 1) # params["target_final_stock"]
    /\ \A o \in model.O : Stock(o, Last(model.T)) = params["target_final_stock"]

\* The monthly refining cap the parameters give a category.
CapOfType(par, type) ==
    IF type = "Veg" THEN par["max_veg_refine_per_month"]
    ELSE par["max_nonveg_refine_per_month"]

TypesOf(cat) == {cat[i].type : i \in DOMAIN cat}

CategoryUse(type, t) ==
    SumOver(OilsOfType(oils, type), [o \in OilsOfType(oils, type) |-> Use(o, t)])

\* C3: in every assignment that satisfies the built model, for every period
\* and every category of the catalog, the Use of the oils of that category
\* sums to at most the category's cap.
CapacityRespect ==
    Evaluated => \A t \in model.T, type \in TypesOf(oils) :
                 CategoryUse(type, t) <= CapOfType(params, type)

\* Two oils of one category are refined together and fill its cap.
CapacityWitness ==
    /\ Evaluated
    /\ \E t \in model.T, type \in TypesOf(oils) :
          /\ CategoryUse(type, t) = CapOfType(params, type)
          /\ \E o1, o2 \in OilsOfType(oils, type) :
                o1 # o2 /\ Use(o1, t) > 0 /\ Use(o2, t) > 0

\* The blend of a probe: total hardness and total usage.
ProbeHardnessSum ==
    SumOver(OilIndex(oils),
            [o \in OilIndex(oils) |-> OilRow(oils, o).hardness * probe.x[Var("Use", o, probe.t)]])
ProbeUseSum ==
    SumOver(OilIndex(oils), [o \in OilIndex(oils) |-> probe.x[Var("Use", o, probe.t)]])

\* min <= s/p <= max for integers min, max, s >= 0 and p > 0, by the integer
\* part of the quotient and its remainder.
RatioWithin(s, p, min, max) ==
    /\ s \div p >= min
    /\ \/ s \div p < max
       \/ s \div p = max /\ s % p = 0

\* C4: ProductionDef, HardnessMin and HardnessMax of a period admit exactly
\* the usages with Produce = sum of Use and either Produce = 0 (every Use 0)
\* or Produce > 0 and the average hardness within [min_hardness, max_hardness].
HardnessLinearization ==
    probe # None =>
       LET produce == probe.x[ProduceVar(probe.t)]
       IN probe.admitted <=>
            /\ produce = ProbeUseSum
            /\ \/ produce = 0 /\ \A o \in OilIndex(oils) : probe.x[Var("Use", o, probe.t)] = 0
               \/ produce > 0 /\ RatioWithin(ProbeHardnessSum, produce,
                                             params["min_hardness"], params["max_hardness"])

\* An admitted blend of two oils whose average hardness is not a whole number
\* of tenths.
HardnessWitness ==
    /\ probe # None
    /\ probe.admitted
    /\ probe.x[ProduceVar(probe.t)] > 1
    /\ ProbeHardnessSum % probe.x[ProduceVar(probe.t)] # 0

\* C5: in every assignment that satisfies a model built with integer logic,
\* Use[o,t] > 0 implies IsUsed[o,t] = 1 and IsUsed[o,t] = 1 implies
\* Use[o,t] >= min_usage_if_used.
DiscreteConsistency ==
    (Evaluated /\ model.integer) =>
        \A o \in model.O, t \in model.T :
           /\ Use(o, t) > 0 => IsUsed(o, t) = 1
           /\ IsUsed(o, t) = 1 => Use(o, t) >= params["min_usage_if_used"]

\* One oil is used at the threshold or above while another is left out, under
\* a threshold above one ton.
DiscreteWitness ==
    /\ Evaluated
    /\ model.integer
    /\ params["min_usage_if_used"] > 1
    /\ \E o1, o2 \in model.O, t \in model.T :
          /\ IsUsed(o1, t) = 1 /\ Use(o1, t) >= params["min_usage_if_used"]
          /\ IsUsed(o2, t) = 0 /\ Use(o2, t) = 0

Max(S) == CHOOSE n \in S : \A k \in S : k <= n

\* The best objective value over a set of value lists.
BestObjective(m, F) == Max({Eval(m.obj.expr, Assignment(m, q)) : q \in F})

\* C6: the model built with integer logic restricts the one built without:
\* same objective, same Buy/Use/Stock/Produce variables and bounds, every
\* assignment feasible for it is, IsUsed dropped, feasible for the continuous
\* model, and its best objective is at most the continuous one.
MonotonicRelaxation ==
    (model # None /\ model.integer) =>
        LET cont == BuildModel(Self, FALSE)
        IN /\ model.obj = cont.obj
           /\ DOMAIN model.var \ DOMAIN cont.var = {"IsUsed"} \X model.O \X model.T
           /\ Restrict(model.var, DOMAIN cont.var) = cont.var
           /\ Evaluated => Satisfies(cont, Restrict(point, DOMAIN cont.var))
           /\ pc = "build" =>
                 LET fd == FeasibleLists(model)
                     fc == FeasibleLists(cont)
                 IN fd # {} => fc # {} /\ BestObjective(model, fd) <= BestObjective(cont, fc)

\* A discrete solution that uses an oil.
RelaxationWitness ==
    /\ Evaluated
    /\ model.integer
    /\ \E o \in model.O, t \in model.T : IsUsed(o, t) = 1 /\ Use(o, t) > 0

\* What the data lacks for a build in the given mode.
LacksPrice == \E o \in OilIndex(oils), t \in prices.index :
                 o \notin DOMAIN prices.col \/ t \notin DOMAIN prices.col[o]
LacksKey(flag) == ~((ContinuousKeys \cup (IF flag THEN DiscreteKeys ELSE {})) \subseteq DOMAIN params)

\* C7: build() fails with a ValidationError and leaves self.model unchanged
\* whenever a price or a key required by the selected mode is missing.
BuildValidates ==
    [][\A flag \in BOOLEAN :
          (Build(flag) /\ (LacksPrice \/ LacksKey(flag))) =>
              (err' = "ValidationError" /\ model' = model)]_vars

\* C8: a status other than Optimal is returned to the caller; solve() raises
\* nothing then and result_data holds records only after an Optimal solve.
SolveSurfacesStatus ==
    Solved => /\ err = "none"
              /\ ret \in Status
              /\ ret # "Optimal" => result_data = <<>>

\* The (dependent, prerequisite) pairs configured in the parameters.
ConfiguredPairs == IF PairsKey \in DOMAIN params THEN params[PairsKey] ELSE {}

\* The constraints of the form IsUsed[d,t] <= IsUsed[p,t] of a model.
Implications(m) ==
    {<<c.idx[2], CHOOSE v \in DOMAIN c.lhs.terms : TRUE, CHOOSE v \in DOMAIN c.rhs.terms : TRUE>> :
        c \in {k \in m.con : k.name \in {"LogicVeg1", "LogicVeg2"}}}

\* C9: in discrete mode the implication constraints are exactly
\* IsUsed[d,t] <= IsUsed[p,t] for every period and configured pair (d, p).
ImplicationsConfigured ==
    (model # None /\ model.integer) =>
        Implications(model) =
            {<<t, Var("IsUsed", pr[1], t), Var("IsUsed", pr[2], t)>> :
                t \in model.T, pr \in ConfiguredPairs}

\* C10: BIG_M in Use[o,t] <= BIG_M * IsUsed[o,t] is at least the refining cap
\* of the category of oil o.
BigMCoversCap ==
    (model # None /\ model.integer) =>
        \A c \in {k \in model.con : k.name = "LinkVars"} :
           c.rhs.terms[Var("IsUsed", c.idx[1], c.idx[2])]
              >= CapOfType(params, OilRow(oils, c.idx[1]).type)

====
